---------------------------- MODULE Spec2Model ----------------------------
(***************************************************************************)
(* A model of SSHLibrary's Jython client (src/SSHLibrary/javaclient.py):   *)
(* JavaSSHClient, SFTPClient and RemoteCommand, as they drive the Trilead  *)
(* SSH-2 backend (Connection, Session, SFTPv3Client, StreamGobbler).       *)
(*                                                                         *)
(* The client is single-threaded: one operation runs at a time.  What runs *)
(* beside it is the remote side (the server, the remote process, the       *)
(* remote file system) and the backend's receiver thread.  The backend is  *)
(* modelled by its documented contract; wherever that contract leaves the  *)
(* outcome open (a call may raise, a read may be short) the model takes    *)
(* every outcome.                                                          *)
(*                                                                         *)
(* The four parts share no state, so each has a specification of its own:  *)
(*   SpecGet   SFTPClient._get_file, _create_remote_file and the handle    *)
(*             operations                                                  *)
(*   SpecPath  SFTPClient._create_missing_remote_path                      *)
(*   SpecConn  JavaSSHClient: login, close, shell, sessions                *)
(*   SpecCmd   RemoteCommand.read_outputs                                  *)
(***************************************************************************)
EXTENDS Integers, Sequences, FiniteSets, TLC

VARIABLES
    \* ---- SFTP transfer (SpecGet) ----
    rexists,        \* the remote path of _get_file names an existing file
    rlen,           \* its current length in bytes
    rspecial,       \* it is not a normal disk file: a read may be short
    rchanges,       \* how often its length changed since the operation began
    localpre,       \* "absent" | "present": the local path before the call
    localtrunc,     \* the local file was created or truncated by the call
    localopen,      \* the FileOutputStream is open
    localfile,      \* bytes written to the local file, as runs
    gop,            \* "none" | "get" | "create": the operation chosen
    gpc,            \* "idle" | "loop" | "closing" | "returned" | "raised"
    gerr,           \* the error kind that propagated to the caller, or "none"
    remotefilesize, \* _get_file's local of that name
    size,           \* _get_file's local of that name: the read offset
    data,           \* _get_file's read buffer, as runs
    moredata,       \* the value the last backend read returned
    shortread,      \* some read returned fewer bytes than were left to fill
    handles,        \* remote file handles opened so far
    cret,           \* the handle _create_remote_file returned (0: none)
    cswallowed,     \* the error kind _create_remote_file swallowed, or "none"
    cperm,          \* the requested mode was applied to the created file
    cfault,         \* <<step, kind>>: the backend call of _create_remote_file
                    \* that failed and how, <<"none", "none">> if none did
    dfile,          \* bytes of the created remote file, written by handle
    \* ---- remote directory creation (SpecPath) ----
    ppath,          \* the path given to _create_missing_remote_path
    dirs,           \* the remote directories, each a sequence of names
    files,          \* the remote regular files, each a sequence of names
    ppc,            \* "idle" | "loop" | "ended"
    pcalls,         \* calls with ppath that have ended
    curdir,         \* the local of that name, a string
    todo,           \* the segments of path.split('/') not yet visited
    perr,           \* the error kind the current or last call raised, or "none"
    plog,           \* the backend calls of the current or last call, in order
    dirs1,          \* the remote directories when the first call ended
    perr1,          \* the error kind the first call raised, or "none"
    \* ---- connection, login and shell (SpecConn) ----
    connected,      \* the Connection's transport is up (close() not yet called)
    authenticated,  \* the backend's flag of that name
    shell,          \* "none" | "open" | "closed": the channel behind self.shell
    sftp,           \* an SFTPClient was created on this connection
    shbuf,          \* shell output received and not yet read
    produced,       \* number of bytes the remote shell has written
    consumed,       \* the values read() and readByte() returned, concatenated
    rpc,            \* "idle" | "read_checked" | "read_alloc" | "byte_checked"
    rn,             \* _read's array length
    lastop,         \* the client operation that ended last, or "none"
    lasterr,        \* the error kind it raised, "none" if it returned
    lastret,        \* what it returned, for read() and readByte()
    lastkey,        \* the credential the last login was given
    everok,         \* some login on this connection has returned normally
    preconn,        \* connected, when the last operation began
    preauth,        \* authenticated, when the last operation began
    \* ---- one command session (SpecCmd) ----
    plan,           \* the writes the remote process has still to do, in order
    ending,         \* what the server sends once the process has ended
    tail,           \* what of it is still to send
    wire,           \* messages the server has sent, not yet received
    outsent,        \* the bytes the process has written to stdout
    errsent,        \* the bytes the process has written to stderr
    chout,          \* the channel's stdout bytes received and not yet read
    cherr,          \* the channel's stderr bytes received and not yet read
    cheof,          \* the channel has received EOF or CLOSE
    chstatus,       \* the exit status the channel has received, or NoStatus
    chclosed,       \* the client has closed the session
    cpc,            \* "created" | "running" | "stdout" | "stderr" | "status"
                    \* | "closing" | "done"
    line,           \* readLine's line so far
    skipLF,         \* readLine has just seen a CR
    stdout,         \* read_outputs' local of that name
    stderr,         \* read_outputs' local of that name
    rc              \* read_outputs' local of that name

getVars == <<rexists, rlen, rspecial, rchanges, localpre, localtrunc, localopen,
             localfile, gop, gpc, gerr, remotefilesize, size, data, moredata,
             shortread, handles, cret, cswallowed, cperm, cfault, dfile>>

pathVars == <<ppath, dirs, files, ppc, pcalls, curdir, todo, perr, plog, dirs1,
              perr1>>

connVars == <<connected, authenticated, shell, sftp, shbuf, produced, consumed,
              rpc, rn, lastop, lasterr, lastret, lastkey, everok, preconn,
              preauth>>

cmdVars == <<plan, ending, tail, wire, outsent, errsent, chout, cherr, cheof, chstatus,
             chclosed, cpc, line, skipLF, stdout, stderr, rc>>

vars == <<getVars, pathVars, connVars, cmdVars>>

notGet == <<pathVars, connVars, cmdVars>>
notPath == <<getVars, connVars, cmdVars>>
notConn == <<getVars, pathVars, cmdVars>>
notCmd == <<getVars, pathVars, connVars>>

(***************************************************************************)
(* Byte sequences as runs.  A remote file's content is arbitrary, so its   *)
(* byte at offset i is the symbol "remote byte i"; a byte of the zeroed    *)
(* jarray is a zero byte.  A byte sequence is a sequence of runs, each a   *)
(* stretch of consecutive remote bytes or of zero bytes, kept normalised:  *)
(* no empty run, and neighbouring runs that continue each other merged.    *)
(* Two byte sequences are equal iff their run sequences are.               *)
(***************************************************************************)
Min(a, b) == IF a < b THEN a ELSE b

\* What Session.getExitStatus() stands for while no exit status has been
\* received: Java's null, Python's None.
NoStatus == -1

RemoteBytes(off, n) ==
    IF n <= 0 THEN <<>> ELSE <<[src |-> "remote", off |-> off, len |-> n]>>

Zeros(n) ==
    IF n <= 0 THEN <<>> ELSE <<[src |-> "zero", off |-> 0, len |-> n]>>

RECURSIVE RLen(_)
RLen(rs) == IF rs = <<>> THEN 0 ELSE Head(rs).len + RLen(Tail(rs))

Continues(a, b) ==
    /\ a.src = b.src
    /\ a.src = "remote" => a.off + a.len = b.off

RCat(a, b) ==
    IF a = <<>> THEN b
    ELSE IF b = <<>> THEN a
    ELSE LET l == a[Len(a)]
             h == Head(b)
         IN  IF Continues(l, h)
             THEN SubSeq(a, 1, Len(a) - 1)
                    \o <<[src |-> l.src, off |-> l.off, len |-> l.len + h.len]>>
                    \o Tail(b)
             ELSE a \o b

RECURSIVE RTake(_, _)
RTake(rs, n) ==
    IF n <= 0 \/ rs = <<>> THEN <<>>
    ELSE LET h == Head(rs)
         IN  IF h.len <= n
             THEN <<h>> \o RTake(Tail(rs), n - h.len)
             ELSE <<[src |-> h.src, off |-> h.off, len |-> n]>>

RECURSIVE RDrop(_, _)
RDrop(rs, n) ==
    IF n <= 0 \/ rs = <<>> THEN rs
    ELSE LET h == Head(rs)
         IN  IF h.len <= n
             THEN RDrop(Tail(rs), n - h.len)
             ELSE <<[src |-> h.src,
                     off |-> IF h.src = "remote" THEN h.off + n ELSE 0,
                     len |-> h.len - n]>> \o Tail(rs)


(***************************************************************************)
(* SFTPClient._get_file and the remote file it reads                       *)
(***************************************************************************)
arraysize == 4096

\* Bound: how often the remote file's length may change during one download.
MaxChanges == 1

\* The remote file lengths tried: empty, one byte, one less than a chunk, a
\* chunk, one more, two chunks, and two chunks and a rest.
FileSizes == {0, 1, 4095, 4096, 4097, 8192, 8200}

NoHandles == <<>>

\* java.io.FileOutputStream(localpath): creates or truncates the file, or
\* raises FileNotFoundException (an IOException).
LocalOpenOutcomes == {"ok", "IOException"}

\* SFTPv3Client.stat / openFileRO: a status reply from the server raises
\* SFTPException, a transport fault IOException.
StatOutcomes == IF rexists THEN {"ok", "IOException"}
                ELSE {"SFTPException", "IOException"}

OpenOutcomes == IF rexists THEN {"ok", "IOException"}
                ELSE {"SFTPException", "IOException"}

\* SFTPv3Client.read(handle, off, dst, 0, len) when it does not raise: -1 at
\* end of file; otherwise the number of bytes put into dst.  For a normal disk
\* file that is len, or what is left up to the end of the file; for any other
\* file the server may return fewer.
ReadResults(off, len) ==
    LET avail == Min(len, rlen - off)
    IN  IF avail <= 0 THEN {-1}
        ELSE IF rspecial THEN {0, 1, avail - 1, avail} \cap (0..avail)
        ELSE {avail}

\* The buffer after a read that returned k bytes from offset off: the first k
\* bytes are overwritten, the rest keeps what it held.
BufferAfterRead(buf, off, k) == RCat(RemoteBytes(off, k), RDrop(buf, k))

\* datalen without the trim of the last chunk.
DatalenUntrimmed(rfs, sz) == arraysize

\* datalen of one loop iteration: len(data), trimmed on the last chunk.
Datalen(rfs, sz) == IF rfs - sz < arraysize THEN rfs - sz ELSE arraysize

\* localfile.write(data, 0, datalen)
LocalWrite(file, buf, datalen) == RCat(file, RTake(buf, datalen))

OpenHandle(owner) == Append(handles, [state |-> "open", closes |-> 0, owner |-> owner])

CloseHandle(h) ==
    [handles EXCEPT ![h] = [state |-> "closed", closes |-> @.closes + 1, owner |-> @.owner]]

\* Lines 139-145: open the local file, stat, openFileRO, set up the loop.
GetFileBegin ==
    /\ gop = "none"
    /\ UNCHANGED notGet
    /\ gop' = "get"
    /\ \E lo \in LocalOpenOutcomes :
         IF lo # "ok"
         THEN /\ gpc' = "raised" /\ gerr' = lo
              /\ UNCHANGED <<localtrunc, localopen, localfile, remotefilesize,
                             size, data, handles>>
         ELSE /\ localtrunc' = TRUE
              /\ localfile' = <<>>
              /\ \E st \in StatOutcomes :
                   IF st # "ok"
                   THEN /\ gpc' = "raised" /\ gerr' = st
                        /\ localopen' = TRUE
                        /\ UNCHANGED <<remotefilesize, size, data, handles>>
                   ELSE /\ remotefilesize' = rlen
                        /\ \E op \in OpenOutcomes :
                             IF op # "ok"
                             THEN /\ gpc' = "raised" /\ gerr' = op
                                  /\ localopen' = TRUE
                                  /\ UNCHANGED <<size, data, handles>>
                             ELSE /\ handles' = OpenHandle("get")
                                  /\ size' = 0
                                  /\ data' = Zeros(arraysize)
                                  /\ localopen' = TRUE
                                  /\ gpc' = "loop" /\ gerr' = "none"
    /\ UNCHANGED <<rexists, rlen, rspecial, rchanges, localpre, moredata,
                   shortread, cret, cswallowed, cperm, cfault, dfile>>

\* Lines 146-155, one iteration whose read raises: the error propagates.
GetFileReadRaises ==
    /\ gop = "get" /\ gpc = "loop"
    /\ UNCHANGED notGet
    /\ gpc' = "raised" /\ gerr' = "IOException"
    /\ UNCHANGED <<rexists, rlen, rspecial, rchanges, localpre, localtrunc,
                   localopen, localfile, gop, remotefilesize, size, data,
                   moredata, shortread, handles, cret, cswallowed, cperm, cfault, dfile>>

\* The loop left as soon as a read delivers nothing.
EndOfDataOnNoBytes(r) == r <= 0

\* Lines 150-151: `if moredata == -1: break`
EndOfData(r) == r = -1

\* Lines 146-155, one iteration whose read returns.
GetFileRead ==
    /\ gop = "get" /\ gpc = "loop"
    /\ UNCHANGED notGet
    /\ \E r \in ReadResults(size, arraysize) :
         /\ moredata' = r
         /\ IF EndOfData(r)
            THEN /\ gpc' = "closing"
                 /\ UNCHANGED <<data, localfile, size, shortread, gerr>>
            ELSE LET buf == BufferAfterRead(data, size, r)
                     datalen == Datalen(remotefilesize, size)
                 IN  /\ data' = buf
                     /\ shortread' = (shortread \/ r < Min(arraysize, rlen - size))
                     /\ \/ /\ localfile' = LocalWrite(localfile, buf, datalen)
                           /\ size' = size + datalen
                           /\ UNCHANGED <<gpc, gerr>>
                        \/ /\ gpc' = "raised" /\ gerr' = "IOException"
                           /\ UNCHANGED <<localfile, size>>
    /\ UNCHANGED <<rexists, rlen, rspecial, rchanges, localpre, localtrunc,
                   localopen, gop, remotefilesize, handles, cret, cswallowed,
                   cperm, cfault, dfile>>

\* Lines 156-158: closeFile, flush, close.
GetFileFinish ==
    /\ gop = "get" /\ gpc = "closing"
    /\ UNCHANGED notGet
    /\ \/ /\ handles' = CloseHandle(Len(handles))
          /\ localopen' = FALSE
          /\ gpc' = "returned"
          /\ UNCHANGED gerr
       \/ /\ gpc' = "raised" /\ gerr' = "IOException"
          /\ UNCHANGED <<handles, localopen>>
    /\ UNCHANGED <<rexists, rlen, rspecial, rchanges, localpre, localtrunc,
                   localfile, gop, remotefilesize, size, data, moredata,
                   shortread, cret, cswallowed, cperm, cfault, dfile>>

\* The remote side appends to the file while it is being downloaded.
RemoteGrow ==
    /\ gop = "get" /\ gpc = "loop"
    /\ UNCHANGED notGet
    /\ rchanges < MaxChanges
    /\ \E n \in {1, arraysize} : rlen' = rlen + n
    /\ rchanges' = rchanges + 1
    /\ UNCHANGED <<rexists, rspecial, localpre, localtrunc, localopen,
                   localfile, gop, gpc, gerr, remotefilesize, size, data,
                   moredata, shortread, handles, cret, cswallowed, cperm, cfault, dfile>>

\* The remote side truncates the file while it is being downloaded.
RemoteShrink ==
    /\ gop = "get" /\ gpc = "loop"
    /\ UNCHANGED notGet
    /\ rchanges < MaxChanges
    /\ rlen > 0
    /\ \E n \in {0, rlen - 1} : rlen' = n
    /\ rchanges' = rchanges + 1
    /\ UNCHANGED <<rexists, rspecial, localpre, localtrunc, localopen,
                   localfile, gop, gpc, gerr, remotefilesize, size, data,
                   moredata, shortread, handles, cret, cswallowed, cperm, cfault, dfile>>

(***************************************************************************)
(* SFTPClient._create_remote_file, _write_to_remote_file and               *)
(* _close_remote_file                                                      *)
(***************************************************************************)
\* Bound: the length the created remote file is written to.
MaxDestLen == 2

\* SFTPv3Client.createFile(dest)
CreateOutcomes == {"ok", "SFTPException", "IOException"}

\* fstat followed by fsetstat: the step that failed and how, or "ok".
PermOutcomes ==
    {<<"none", "none">>}
      \cup ({"fstat", "fsetstat"} \X {"SFTPException", "IOException"})

\* _create_remote_file without its except clause.
SwallowedNothing(kind) == FALSE

\* except SFTPException: pass
Swallowed(kind) == kind = "SFTPException"

\* Lines 122-130.
CreateRemoteFile ==
    /\ gop = "none"
    /\ UNCHANGED notGet
    /\ gop' = "create"
    /\ \E c \in CreateOutcomes :
         IF c # "ok"
         THEN /\ gpc' = "raised" /\ gerr' = c
              /\ cfault' = <<"create", c>>
              /\ UNCHANGED <<handles, cret, cswallowed, cperm, dfile>>
         ELSE /\ handles' = OpenHandle("create")
              /\ dfile' = <<>>
              /\ \E p \in PermOutcomes :
                   /\ cfault' = p
                   /\ IF p[1] = "none"
                      THEN /\ cperm' = TRUE
                           /\ cret' = Len(handles')
                           /\ gpc' = "returned"
                           /\ UNCHANGED <<gerr, cswallowed>>
                      ELSE IF Swallowed(p[2])
                      THEN /\ cswallowed' = p[2]
                           /\ cret' = Len(handles')
                           /\ gpc' = "returned"
                           /\ UNCHANGED <<gerr, cperm>>
                      ELSE /\ gpc' = "raised" /\ gerr' = p[2]
                           /\ UNCHANGED <<cret, cswallowed, cperm>>
    /\ UNCHANGED <<rexists, rlen, rspecial, rchanges, localpre, localtrunc,
                   localopen, localfile, remotefilesize, size, data, moredata,
                   shortread>>

\* The bytes of a file after data is written at position pos.
WriteAt(file, pos, bytes) ==
    LET n == IF pos + Len(bytes) > Len(file) THEN pos + Len(bytes) ELSE Len(file)
    IN  [i \in 1..n |->
           IF i > pos /\ i <= pos + Len(bytes) THEN bytes[i - pos] ELSE file[i]]

\* Lines 132-133: the caller writes a chunk through the handle it was given.
WriteToRemoteFile ==
    /\ gop = "create" /\ gpc = "returned" /\ cret # 0
    /\ UNCHANGED notGet
    /\ handles[cret].state = "open"
    /\ \E pos \in 0..Len(dfile) :
         /\ pos < MaxDestLen
         /\ dfile' = WriteAt(dfile, pos, <<pos + 1>>)
    /\ UNCHANGED <<rexists, rlen, rspecial, rchanges, localpre, localtrunc,
                   localopen, localfile, gop, gpc, gerr, remotefilesize, size,
                   data, moredata, shortread, handles, cret, cswallowed, cperm,
                   cfault>>

\* Lines 135-136: the caller closes the handle it was given.
CloseRemoteFile ==
    /\ gop = "create" /\ gpc = "returned" /\ cret # 0
    /\ UNCHANGED notGet
    /\ handles[cret].state = "open"
    /\ handles' = CloseHandle(cret)
    /\ UNCHANGED <<rexists, rlen, rspecial, rchanges, localpre, localtrunc,
                   localopen, localfile, gop, gpc, gerr, remotefilesize, size,
                   data, moredata, shortread, cret, cswallowed, cperm, cfault, dfile>>

OldBytes == <<[src |-> "old", off |-> 0, len |-> 3]>>

GetInit ==
    /\ rexists \in BOOLEAN
    /\ rlen \in (IF rexists THEN FileSizes ELSE {0})
    /\ rspecial \in (IF rexists THEN BOOLEAN ELSE {FALSE})
    /\ rchanges = 0
    /\ localpre \in {"absent", "present"}
    /\ localtrunc = FALSE
    /\ localopen = FALSE
    /\ localfile = (IF localpre = "present" THEN OldBytes ELSE <<>>)
    /\ gop = "none" /\ gpc = "idle" /\ gerr = "none"
    /\ remotefilesize = 0 /\ size = 0 /\ data = <<>> /\ moredata = 0
    /\ shortread = FALSE
    /\ handles = NoHandles
    /\ cret = 0 /\ cswallowed = "none" /\ cperm = FALSE
    /\ cfault = <<"none", "none">>
    /\ dfile = <<>>
    /\ ppath = <<>> /\ dirs = {} /\ files = {} /\ ppc = "idle" /\ pcalls = 0
    /\ curdir = <<>> /\ todo = <<>> /\ perr = "none" /\ plog = <<>>
    /\ dirs1 = {} /\ perr1 = "none"
    /\ connected = TRUE /\ authenticated = FALSE /\ shell = "none"
    /\ sftp = FALSE /\ shbuf = <<>> /\ produced = 0 /\ consumed = <<>>
    /\ rpc = "idle" /\ rn = 0
    /\ lastop = "none" /\ lasterr = "none" /\ lastret = <<>>
    /\ lastkey = "none" /\ everok = FALSE
    /\ preconn = TRUE /\ preauth = FALSE
    /\ plan = <<>> /\ ending = <<>> /\ tail = <<>> /\ wire = <<>>
    /\ outsent = <<>> /\ errsent = <<>> /\ chout = <<>> /\ cherr = <<>>
    /\ cheof = FALSE /\ chstatus = NoStatus /\ chclosed = FALSE
    /\ cpc = "created" /\ line = <<>> /\ skipLF = FALSE
    /\ stdout = <<>> /\ stderr = <<>> /\ rc = 0

GetNext ==
    \/ GetFileBegin
    \/ GetFileRead
    \/ GetFileReadRaises
    \/ GetFileFinish
    \/ RemoteGrow
    \/ RemoteShrink
    \/ CreateRemoteFile
    \/ WriteToRemoteFile
    \/ CloseRemoteFile

SpecGet == GetInit /\ [][GetNext]_vars

\* The same, the call going on whenever it can: the loop of lines 146-155
\* takes its next iteration and lines 156-158 are executed once reached.
SpecGetLive ==
    /\ GetInit /\ [][GetNext]_vars
    /\ WF_vars(GetFileRead) /\ WF_vars(GetFileFinish)

(***************************************************************************)
(* Claims about the SFTP transfer                                          *)
(***************************************************************************)
GetReturned == gop = "get" /\ gpc = "returned"
GetEnded == gop = "get" /\ gpc \in {"returned", "raised"}
CreateEnded == gop = "create" /\ gpc \in {"returned", "raised"}

\* C1 (as claimed): after downloadFile has returned, the local file equals the
\* remote file's content byte for byte, whatever the file's size (the remote
\* file not having changed meanwhile).
C1_DownloadEqualsRemote ==
    (GetReturned /\ rchanges = 0) => localfile = RemoteBytes(0, rlen)

\* What does hold for C1: the same, when every read filled the buffer up to the
\* end of the file, as the backend promises for a normal disk file.
DownloadEqualsRemoteOnFilledReads ==
    (GetReturned /\ rchanges = 0 /\ ~shortread) => localfile = RemoteBytes(0, rlen)

\* C2 (as claimed): when downloadFile or createRemoteFile has ended, normally
\* or by an error, every remote handle it opened has been closed exactly once
\* or was returned to the caller.
HandleSettled(h) ==
    \/ handles[h].state = "closed" /\ handles[h].closes = 1
    \/ h = cret

C2_NoHandleLeftOpen ==
    (GetEnded \/ CreateEnded) => \A h \in 1..Len(handles) : HandleSettled(h)

\* C8: a failure of createFile propagates and no handle is returned; a
\* rejection of fstat or fsetstat by the server is swallowed, the call returns
\* the handle it opened, open and writable until the caller closes it; and
\* whatever was swallowed came from the permission step.
C8_PermissionFailureSwallowed ==
    CreateEnded =>
      /\ cfault[1] = "create" =>
           /\ gpc = "raised" /\ gerr = cfault[2]
           /\ cret = 0 /\ handles = NoHandles /\ cswallowed = "none"
      /\ (cfault[1] \in {"fstat", "fsetstat"} /\ cfault[2] = "SFTPException") =>
           /\ gpc = "returned" /\ gerr = "none" /\ cswallowed = "SFTPException"
           /\ cret = Len(handles) /\ cret # 0
           /\ handles[cret].owner = "create"
           /\ handles[cret].closes = 0 =>
                (handles[cret].state = "open" /\ ENABLED WriteToRemoteFile)
      /\ cswallowed # "none" => cfault[1] \in {"fstat", "fsetstat"}

\* C8's case: the server rejected the permission step, and the caller has
\* written through the handle it got.
C8_Witness ==
    /\ CreateEnded /\ cfault = <<"fsetstat", "SFTPException">>
    /\ cret # 0 /\ dfile # <<>> /\ ~cperm

(***************************************************************************)
(* SFTPClient._create_missing_remote_path and the remote directory tree    *)
(*                                                                         *)
(* A string is a sequence of one-character strings.  The server resolves a *)
(* path string to the sequence of its non-empty segments, so "//a/b" and   *)
(* "/a/b/" name the same directory; <<>> is the root.  A segment is itself *)
(* a string: the directory /a/b is << <<"a">>, <<"b">> >>.                 *)
(***************************************************************************)
\* Bound: the length of the path strings tried.
MaxPathLen == 5

\* Bound: how often the operation is called with the same path.
MaxCalls == 2

Chars == {"/", "a", "b"}

RECURSIVE StringsUpTo(_)
StringsUpTo(n) ==
    IF n = 0 THEN {<<>>}
    ELSE LET shorter == StringsUpTo(n - 1)
         IN  shorter \cup {Append(t, c) : t \in {u \in shorter : Len(u) = n - 1},
                                          c \in Chars}

Paths == StringsUpTo(MaxPathLen)

\* path.startswith('/')
StartsWithSlash(str) == Len(str) > 0 /\ str[1] = "/"

\* path.split('/'): n slashes give n + 1 segments, empty ones included.
RECURSIVE Split(_)
Split(str) ==
    IF str = <<>> THEN << <<>> >>
    ELSE LET rest == Split(Tail(str))
         IN  IF Head(str) = "/"
             THEN << <<>> >> \o rest
             ELSE << <<Head(str)>> \o Head(rest) >> \o Tail(rest)

\* '%s/%s' % (curdir, dirname)
Join(cur, dirname) == cur \o <<"/">> \o dirname

\* The server's view of a path string: its non-empty segments.
Resolve(str) == SelectSeq(Split(str), LAMBDA seg : seg # <<>>)

Parent(comps) == SubSeq(comps, 1, Len(comps) - 1)

\* The session's working directory on the server, /h: what canonicalPath('.')
\* names.  It always exists.
Cwd == << <<"h">> >>

IsDir(comps) == comps = <<>> \/ comps = Cwd \/ comps \in dirs

\* SFTPv3Client.stat(path) succeeds iff the path names something.
StatOk(str) == LET c == Resolve(str) IN IsDir(c) \/ c \in files

\* SFTPv3Client.mkdir(path, mode) succeeds iff the path names nothing yet and
\* its parent is a directory.
MkdirOk(str) ==
    LET c == Resolve(str)
    IN  ~IsDir(c) /\ c \notin files /\ IsDir(Parent(c))

\* Lines 110-113: where the walk starts.  For a relative path the code looks
\* up _absolute_path on self._client, the backend's SFTPv3Client, which has
\* no such attribute (it is a method of SFTPClient, line 160): the lookup
\* raises AttributeError and the call ends there.
StartDir(path) ==
    IF StartsWithSlash(path)
    THEN [err |-> "none", dir |-> <<"/">>]
    ELSE [err |-> "AttributeError", dir |-> <<>>]

EndCall(err) ==
    /\ ppc' = "ended"
    /\ perr' = err
    /\ pcalls' = pcalls + 1
    /\ IF pcalls = 0
       THEN dirs1' = dirs' /\ perr1' = err
       ELSE UNCHANGED <<dirs1, perr1>>

\* Lines 109-113: a call begins.
PathBegin ==
    /\ ppc = "idle" \/ (ppc = "ended" /\ pcalls < MaxCalls)
    /\ UNCHANGED notPath
    /\ plog' = <<>>
    /\ UNCHANGED <<ppath, dirs, files>>
    /\ LET start == StartDir(ppath)
       IN  IF start.err # "none"
           THEN /\ EndCall(start.err)
                /\ UNCHANGED <<curdir, todo>>
           ELSE /\ curdir' = start.dir
                /\ todo' = Split(ppath)
                /\ ppc' = "loop"
                /\ perr' = "none"
                /\ UNCHANGED <<pcalls, dirs1, perr1>>

\* Lines 115-116: curdir once the next segment has been added to it.
NextCurdir ==
    LET dirname == Head(todo)
    IN  IF dirname # <<>> THEN Join(curdir, dirname) ELSE curdir

\* The stat without a try around it.
StatFailureCaughtNever(kind) == FALSE

\* Line 119: `except IOException`, of which SFTPException is a subclass.
StatFailureCaught(kind) == kind \in {"IOException", "SFTPException"}

\* Lines 114-120: one iteration of the loop over the segments; the call
\* returns after the last one.
PathStep ==
    /\ ppc = "loop"
    /\ UNCHANGED notPath
    /\ UNCHANGED <<ppath, files>>
    /\ LET cur == NextCurdir
           last == Tail(todo) = <<>>
       IN  /\ curdir' = cur
           /\ todo' = Tail(todo)
           /\ IF StatOk(cur)
              THEN /\ plog' = Append(plog, <<"stat", Resolve(cur)>>)
                   /\ UNCHANGED dirs
                   /\ IF last THEN EndCall("none")
                      ELSE UNCHANGED <<ppc, perr, pcalls, dirs1, perr1>>
              ELSE IF ~StatFailureCaught("SFTPException")
              THEN /\ plog' = Append(plog, <<"stat", Resolve(cur)>>)
                   /\ UNCHANGED dirs
                   /\ EndCall("SFTPException")
              ELSE /\ plog' = plog \o << <<"stat", Resolve(cur)>>,
                                         <<"mkdir", Resolve(cur)>> >>
                   /\ IF MkdirOk(cur)
                      THEN /\ dirs' = dirs \cup {Resolve(cur)}
                           /\ IF last THEN EndCall("none")
                              ELSE UNCHANGED <<ppc, perr, pcalls, dirs1, perr1>>
                      ELSE /\ UNCHANGED dirs
                           /\ EndCall("SFTPException")

\* The remote trees tried: below the root, a and b, and below a again a and b;
\* each a directory, a regular file or missing, nothing below a non-directory.
TreeNodes == {<< <<"a">> >>, << <<"b">> >>, << <<"a">>, <<"a">> >>,
              << <<"a">>, <<"b">> >>}

Trees ==
    {k \in [TreeNodes -> {"none", "dir", "file"}] :
        \A n \in TreeNodes : (Len(n) = 2 /\ k[n] # "none") => k[Parent(n)] = "dir"}

PathInit ==
    /\ ppath \in Paths
    /\ \E k \in Trees :
         /\ dirs = {n \in TreeNodes : k[n] = "dir"}
         /\ files = {n \in TreeNodes : k[n] = "file"}
    /\ ppc = "idle" /\ pcalls = 0
    /\ curdir = <<>> /\ todo = <<>> /\ perr = "none" /\ plog = <<>>
    /\ dirs1 = {} /\ perr1 = "none"
    /\ rexists = FALSE /\ rlen = 0 /\ rspecial = FALSE /\ rchanges = 0
    /\ localpre = "absent" /\ localtrunc = FALSE /\ localopen = FALSE
    /\ localfile = <<>>
    /\ gop = "none" /\ gpc = "idle" /\ gerr = "none"
    /\ remotefilesize = 0 /\ size = 0 /\ data = <<>> /\ moredata = 0
    /\ shortread = FALSE
    /\ handles = NoHandles
    /\ cret = 0 /\ cswallowed = "none" /\ cperm = FALSE
    /\ cfault = <<"none", "none">>
    /\ dfile = <<>>
    /\ connected = TRUE /\ authenticated = FALSE /\ shell = "none"
    /\ sftp = FALSE /\ shbuf = <<>> /\ produced = 0 /\ consumed = <<>>
    /\ rpc = "idle" /\ rn = 0
    /\ lastop = "none" /\ lasterr = "none" /\ lastret = <<>>
    /\ lastkey = "none" /\ everok = FALSE
    /\ preconn = TRUE /\ preauth = FALSE
    /\ plan = <<>> /\ ending = <<>> /\ tail = <<>> /\ wire = <<>>
    /\ outsent = <<>> /\ errsent = <<>> /\ chout = <<>> /\ cherr = <<>>
    /\ cheof = FALSE /\ chstatus = NoStatus /\ chclosed = FALSE
    /\ cpc = "created" /\ line = <<>> /\ skipLF = FALSE
    /\ stdout = <<>> /\ stderr = <<>> /\ rc = 0

PathNext ==
    \/ PathBegin
    \/ PathStep

SpecPath == PathInit /\ [][PathNext]_vars

(***************************************************************************)
(* Claims about remote directory creation                                  *)
(***************************************************************************)
FirstCallEnded == ppc = "ended" /\ pcalls = 1
SecondCallEnded == ppc = "ended" /\ pcalls = 2

Mkdirs(log) == SelectSeq(log, LAMBDA e : e[1] = "mkdir")

\* The directories the call is to leave in place: every prefix of the path,
\* below the root for a '/'-rooted path and below the working directory for a
\* relative one.
Wanted(path) ==
    LET base == IF StartsWithSlash(path) THEN <<>> ELSE Cwd
        c == Resolve(path)
    IN  {base \o SubSeq(c, 1, i) : i \in 1..Len(c)}

Exists(comps) == IsDir(comps) \/ comps \in files

\* C3 (as claimed): for every path, the second of two calls in a row raises no
\* error, issues no mkdir and leaves the directories as the first call left
\* them.
C3_EnsureIdempotent ==
    SecondCallEnded => (perr = "none" /\ Mkdirs(plog) = <<>> /\ dirs = dirs1)

\* What does hold for C3: the same, for a call that follows one that returned.
EnsureIdempotentAfterReturn ==
    (SecondCallEnded /\ perr1 = "none") =>
        (perr = "none" /\ Mkdirs(plog) = <<>> /\ dirs = dirs1)

\* Every mkdir of the log directly follows a stat of the same path, and the
\* paths stat'd run from parent to child.
CheckedBeforeCreated(log) ==
    /\ \A i \in 1..Len(log) :
         log[i][1] = "mkdir" => (i > 1 /\ log[i - 1] = <<"stat", log[i][2]>>)
    /\ \A i, j \in 1..Len(log) :
         (i < j /\ log[i][1] = "stat" /\ log[j][1] = "stat")
            => Len(log[i][2]) <= Len(log[j][2])

\* C4 (as claimed): a call creates every missing segment, from the root for a
\* '/'-rooted path and from the working directory for a relative one: unless
\* the server refuses a mkdir it returns, every prefix of the path then exists,
\* each was stat'd before it was created, parents before children, and a
\* segment that existed was not created again.
C4_EnsureCreatesEverySegment ==
    FirstCallEnded =>
      /\ perr # "SFTPException" => perr = "none"
      /\ perr = "none" => \A d \in Wanted(ppath) : Exists(d)
      /\ CheckedBeforeCreated(plog)

\* What does hold for C4: the same, for '/'-rooted paths.
EnsureCreatesEverySegmentRooted ==
    (FirstCallEnded /\ StartsWithSlash(ppath)) =>
      /\ perr # "SFTPException" => perr = "none"
      /\ perr = "none" => \A d \in Wanted(ppath) : Exists(d)
      /\ CheckedBeforeCreated(plog)

(***************************************************************************)
(* JavaSSHClient: login, close, sessions and the shell                     *)
(*                                                                         *)
(* The state begins after the constructor: the Connection is connected and *)
(* not authenticated.  The transport stays up until close(); what a        *)
(* transport fault does to a transfer is part of SpecGet.                  *)
(*                                                                         *)
(* The backend: Connection.openSession raises IllegalStateException on a   *)
(* connection that is closed or not authenticated; the authenticate calls  *)
(* raise it on one that is closed or already authenticated, return false   *)
(* for a rejection, and authenticateWithPublicKey reads the key file       *)
(* first, raising IOException if it cannot be read or parsed.  close()     *)
(* closes every channel; a closed channel's input stream keeps the bytes   *)
(* it has buffered and reports them as available, its output stream raises *)
(* IOException, and so does a request on its SFTP channel.                 *)
(***************************************************************************)
\* Bound: the number of bytes the remote shell writes.
MaxShellBytes == 3

Passwords == {"good", "bad"}
KeyFiles == {"accepted", "rejected", "missing", "unreadable", "malformed"}
BadKeyFiles == {"missing", "unreadable", "malformed"}
SessionOps == {"start_command", "open_shell", "create_sftp_client"}

\* The i-th byte the remote shell writes, as a signed Java byte.
ByteAt(i) == ((i * 77) % 256) - 128

\* chr(b): the byte taken as it is.
ChrUnmasked(b) == b

\* chr(b & 0xFF): the character code of a signed byte.
Chr(b) == (b + 256) % 256

\* Connection.authenticateWithPassword
AuthPasswordResult(pw) ==
    IF ~connected \/ authenticated THEN "IllegalStateException"
    ELSE IF pw = "good" THEN "true" ELSE "false"

\* Connection.authenticateWithPublicKey(user, File(keyfile), password)
AuthKeyResult(key) ==
    IF key \in BadKeyFiles THEN "IOException"
    ELSE IF ~connected \/ authenticated THEN "IllegalStateException"
    ELSE IF key = "accepted" THEN "true" ELSE "false"

\* Connection.openSession
OpenSessionResult ==
    IF connected /\ authenticated THEN "ok" ELSE "IllegalStateException"

\* _login returning the backend's false instead of raising.
LoginErrorReturnsFalse(result) ==
    IF result \in {"true", "false"} THEN "none" ELSE result

\* Lines 42-44: the error _login raises for a backend result.
LoginError(result) ==
    IF result = "true" THEN "none"
    ELSE IF result = "false" THEN "SSHClientException"
    ELSE result

\* _login_with_public_key without its except clause.
LoginWithPublicKeyErrorUncaught(result) ==
    IF result = "true" THEN "none"
    ELSE IF result = "false" THEN "SSHClientException"
    ELSE result

\* Lines 46-55: the error _login_with_public_key raises for a backend result;
\* except IOError also catches java.io.IOException.
LoginWithPublicKeyError(result) ==
    IF result = "true" THEN "none"
    ELSE IF result = "false" THEN "SSHClientException"
    ELSE IF result = "IOException" THEN "SSHClientException"
    ELSE result

\* An operation of the client ends: it raised err, or returned ret.
OpEnds(op, err, ret) ==
    /\ lastop' = op /\ lasterr' = err /\ lastret' = ret
    /\ preconn' = connected /\ preauth' = authenticated

\* Lines 42-44.
Login ==
    /\ rpc = "idle"
    /\ UNCHANGED notConn
    /\ \E pw \in Passwords :
         LET result == AuthPasswordResult(pw)
         IN  /\ authenticated' = (authenticated \/ result = "true")
             /\ everok' = (everok \/ LoginError(result) = "none")
             /\ lastkey' = pw
             /\ OpEnds("login", LoginError(result), <<>>)
    /\ UNCHANGED <<connected, shell, sftp, shbuf, produced, consumed, rpc, rn>>

\* Lines 46-55.
LoginWithPublicKey ==
    /\ rpc = "idle"
    /\ UNCHANGED notConn
    /\ \E key \in KeyFiles :
         LET result == AuthKeyResult(key)
         IN  /\ authenticated' = (authenticated \/ result = "true")
             /\ everok' = (everok \/ LoginWithPublicKeyError(result) = "none")
             /\ lastkey' = key
             /\ OpEnds("login_with_public_key", LoginWithPublicKeyError(result),
                       <<>>)
    /\ UNCHANGED <<connected, shell, sftp, shbuf, produced, consumed, rpc, rn>>

\* Lines 57-58.
Close ==
    /\ rpc = "idle"
    /\ UNCHANGED notConn
    /\ connected' = FALSE
    /\ authenticated' = FALSE
    /\ shell' = IF shell = "open" THEN "closed" ELSE shell
    /\ OpEnds("close", "none", <<>>)
    /\ UNCHANGED <<sftp, shbuf, produced, consumed, rpc, rn, lastkey, everok>>

\* Lines 60-63.
StartCommand ==
    /\ rpc = "idle"
    /\ UNCHANGED notConn
    /\ OpEnds("start_command",
              IF OpenSessionResult = "ok" THEN "none" ELSE OpenSessionResult, <<>>)
    /\ UNCHANGED <<connected, authenticated, shell, sftp, shbuf, produced,
                   consumed, rpc, rn, lastkey, everok>>

\* Lines 65-71: self._stdout becomes the stream of the new session; what an
\* earlier shell wrote and what was read from it belong to that session.
OpenShell ==
    /\ rpc = "idle"
    /\ UNCHANGED notConn
    /\ IF OpenSessionResult = "ok"
       THEN /\ shell' = "open"
            /\ shbuf' = <<>>
            /\ produced' = 0
            /\ consumed' = <<>>
            /\ OpEnds("open_shell", "none", <<>>)
       ELSE /\ OpEnds("open_shell", OpenSessionResult, <<>>)
            /\ UNCHANGED <<shell, shbuf, produced, consumed>>
    /\ UNCHANGED <<connected, authenticated, sftp, rpc, rn, lastkey, everok>>

\* The remote shell writes a byte, which the receiver thread buffers.
ShellOutput ==
    /\ shell = "open"
    /\ produced < MaxShellBytes
    /\ UNCHANGED notConn
    /\ produced' = produced + 1
    /\ shbuf' = Append(shbuf, ByteAt(produced + 1))
    /\ UNCHANGED <<connected, authenticated, shell, sftp, consumed, rpc, rn,
                   lastop, lasterr, lastret, lastkey, everok, preconn, preauth>>

\* self._stdout.available(): the bytes buffered, also on a closed channel.
Available == Len(shbuf)

\* The stream read whatever available() says.
HasDataAlways == TRUE

\* Lines 75 and 83: `if self._stdout.available():`
HasData == Available # 0

\* Lines 74-75: _read's first call of available(); with no shell opened there
\* is no self._stdout.
ReadBegin ==
    /\ rpc = "idle"
    /\ UNCHANGED notConn
    /\ IF shell = "none"
       THEN /\ OpEnds("read", "AttributeError", <<>>)
            /\ UNCHANGED rpc
       ELSE IF ~HasData
       THEN /\ OpEnds("read", "none", <<>>)
            /\ UNCHANGED rpc
       ELSE /\ rpc' = "read_checked"
            /\ UNCHANGED <<lastop, lasterr, lastret, preconn, preauth>>
    /\ UNCHANGED <<connected, authenticated, shell, sftp, shbuf, produced,
                   consumed, rn, lastkey, everok>>

\* Line 76: the array is sized by a second call of available().
ReadAlloc ==
    /\ rpc = "read_checked"
    /\ UNCHANGED notConn
    /\ rn' = Available
    /\ rpc' = "read_alloc"
    /\ UNCHANGED <<connected, authenticated, shell, sftp, shbuf, produced,
                   consumed, lastop, lasterr, lastret, lastkey, everok, preconn,
                   preauth>>

\* The array after InputStream.read(array): as many buffered bytes as fit,
\* the rest of the array left zero.
ArrayAfterRead(n, buf) ==
    [i \in 1..n |-> IF i <= Len(buf) THEN buf[i] ELSE 0]

\* Lines 77-79: read into the array and decode all of it.
ReadDo ==
    /\ rpc = "read_alloc"
    /\ UNCHANGED notConn
    /\ LET arr == ArrayAfterRead(rn, shbuf)
           text == [i \in 1..rn |-> Chr(arr[i])]
       IN  /\ shbuf' = SubSeq(shbuf, Min(rn, Len(shbuf)) + 1, Len(shbuf))
           /\ consumed' = consumed \o text
           /\ OpEnds("read", "none", text)
    /\ rpc' = "idle"
    /\ UNCHANGED <<connected, authenticated, shell, sftp, produced, rn, lastkey,
                   everok>>

\* Lines 82-83: _read_byte's call of available().
ReadByteBegin ==
    /\ rpc = "idle"
    /\ UNCHANGED notConn
    /\ IF shell = "none"
       THEN /\ OpEnds("read_byte", "AttributeError", <<>>)
            /\ UNCHANGED rpc
       ELSE IF ~HasData
       THEN /\ OpEnds("read_byte", "none", <<>>)
            /\ UNCHANGED rpc
       ELSE /\ rpc' = "byte_checked"
            /\ UNCHANGED <<lastop, lasterr, lastret, preconn, preauth>>
    /\ UNCHANGED <<connected, authenticated, shell, sftp, shbuf, produced,
                   consumed, rn, lastkey, everok>>

\* Line 84: chr(self._stdout.read()); read() gives the byte as 0..255.
ReadByteDo ==
    /\ rpc = "byte_checked"
    /\ UNCHANGED notConn
    /\ LET text == <<Chr(Head(shbuf))>>
       IN  /\ shbuf' = Tail(shbuf)
           /\ consumed' = consumed \o text
           /\ OpEnds("read_byte", "none", text)
    /\ rpc' = "idle"
    /\ UNCHANGED <<connected, authenticated, shell, sftp, produced, rn, lastkey,
                   everok>>

\* Lines 87-89: write and flush to the shell's stdin.
Write ==
    /\ rpc = "idle"
    /\ UNCHANGED notConn
    /\ OpEnds("write",
              IF shell = "none" THEN "AttributeError"
              ELSE IF shell = "closed" THEN "IOException"
              ELSE "none", <<>>)
    /\ UNCHANGED <<connected, authenticated, shell, sftp, shbuf, produced,
                   consumed, rpc, rn, lastkey, everok>>

\* Lines 91-92 and 97-98: SFTPv3Client(connection) opens a session.
CreateSFTPClient ==
    /\ rpc = "idle"
    /\ UNCHANGED notConn
    /\ IF OpenSessionResult = "ok"
       THEN /\ sftp' = TRUE
            /\ OpEnds("create_sftp_client", "none", <<>>)
       ELSE /\ OpEnds("create_sftp_client", OpenSessionResult, <<>>)
            /\ UNCHANGED sftp
    /\ UNCHANGED <<connected, authenticated, shell, shbuf, produced, consumed,
                   rpc, rn, lastkey, everok>>

\* Lines 100-101: an operation of an SFTPClient created earlier.
SftpList ==
    /\ rpc = "idle"
    /\ sftp
    /\ UNCHANGED notConn
    /\ OpEnds("sftp_list", IF connected THEN "none" ELSE "IOException", <<>>)
    /\ UNCHANGED <<connected, authenticated, shell, sftp, shbuf, produced,
                   consumed, rpc, rn, lastkey, everok>>

ConnInit ==
    /\ connected = TRUE /\ authenticated = FALSE /\ shell = "none"
    /\ sftp = FALSE /\ shbuf = <<>> /\ produced = 0 /\ consumed = <<>>
    /\ rpc = "idle" /\ rn = 0
    /\ lastop = "none" /\ lasterr = "none" /\ lastret = <<>>
    /\ lastkey = "none" /\ everok = FALSE
    /\ preconn = TRUE /\ preauth = FALSE
    /\ ppath = <<>> /\ dirs = {} /\ files = {} /\ ppc = "idle" /\ pcalls = 0
    /\ curdir = <<>> /\ todo = <<>> /\ perr = "none" /\ plog = <<>>
    /\ dirs1 = {} /\ perr1 = "none"
    /\ rexists = FALSE /\ rlen = 0 /\ rspecial = FALSE /\ rchanges = 0
    /\ localpre = "absent" /\ localtrunc = FALSE /\ localopen = FALSE
    /\ localfile = <<>>
    /\ gop = "none" /\ gpc = "idle" /\ gerr = "none"
    /\ remotefilesize = 0 /\ size = 0 /\ data = <<>> /\ moredata = 0
    /\ shortread = FALSE
    /\ handles = NoHandles
    /\ cret = 0 /\ cswallowed = "none" /\ cperm = FALSE
    /\ cfault = <<"none", "none">>
    /\ dfile = <<>>
    /\ plan = <<>> /\ ending = <<>> /\ tail = <<>> /\ wire = <<>>
    /\ outsent = <<>> /\ errsent = <<>> /\ chout = <<>> /\ cherr = <<>>
    /\ cheof = FALSE /\ chstatus = NoStatus /\ chclosed = FALSE
    /\ cpc = "created" /\ line = <<>> /\ skipLF = FALSE
    /\ stdout = <<>> /\ stderr = <<>> /\ rc = 0

ConnNext ==
    \/ Login
    \/ LoginWithPublicKey
    \/ Close
    \/ StartCommand
    \/ OpenShell
    \/ ShellOutput
    \/ ReadBegin
    \/ ReadAlloc
    \/ ReadDo
    \/ ReadByteBegin
    \/ ReadByteDo
    \/ Write
    \/ CreateSFTPClient
    \/ SftpList

SpecConn == ConnInit /\ [][ConnNext]_vars

(***************************************************************************)
(* Claims about the connection                                             *)
(***************************************************************************)
LoginOps == {"login", "login_with_public_key"}
GuardedOps == SessionOps \cup {"read", "read_byte", "write", "sftp_list"}

\* C5 (as claimed): every shell, command or SFTP operation begun after close()
\* has returned ends with an error.
C5_ClosedConnectionRefuses ==
    (lastop \in GuardedOps /\ ~preconn) => lasterr # "none"

\* What does hold for C5: the operations that open a session, write to the
\* shell or use the SFTP channel raise once the connection is closed.
ClosedConnectionRefusesSessions ==
    (lastop \in (GuardedOps \ {"read", "read_byte"}) /\ ~preconn)
        => lasterr # "none"

\* C6: a login returns normally only if the backend authenticated the
\* connection, and one the server rejects raises SSHClientException; on a
\* connection where a login has succeeded, opening a shell, a command or an
\* SFTP session succeeds until close(); on one where none has (every login so
\* far failed), each of them raises.
C6_LoginDecidesUsability ==
    /\ (lastop \in LoginOps /\ lasterr = "none") => authenticated
    /\ (lastop \in LoginOps /\ lastkey \in {"bad", "rejected"}
           /\ preconn /\ ~preauth) => lasterr = "SSHClientException"
    /\ (lastop \in SessionOps /\ everok /\ preconn) => lasterr = "none"
    /\ (lastop \in SessionOps /\ ~everok) => lasterr # "none"

\* C6's case: after a rejected password, starting a command raises.
C6_Witness ==
    /\ lastop = "start_command" /\ lastkey = "bad" /\ ~everok /\ preconn
    /\ lasterr = "IllegalStateException"

\* C7: a key login given a missing, unreadable or malformed key file raises
\* SSHClientException, the kind raised for a key or a password the server
\* rejects; no key login ends with an IOException.
C7_KeyFailuresShareOneKind ==
    /\ lastop = "login_with_public_key" =>
         /\ lasterr # "IOException"
         /\ lastkey \in BadKeyFiles => lasterr = "SSHClientException"
         /\ (lastkey = "rejected" /\ preconn /\ ~preauth)
               => lasterr = "SSHClientException"
    /\ (lastop = "login" /\ lastkey = "bad" /\ preconn /\ ~preauth)
         => lasterr = "SSHClientException"

\* C7's case: a key login with a key file that does not exist has raised.
C7_Witness ==
    /\ lastop = "login_with_public_key" /\ lastkey = "missing"
    /\ lasterr = "SSHClientException"

(***************************************************************************)
(* RemoteCommand: one command session                                      *)
(*                                                                         *)
(* The remote process writes to stdout and stderr and ends; the server     *)
(* then sends the channel's EOF and, if the process reported one, its exit *)
(* status, in either order, and CLOSE last.  The backend's receiver thread *)
(* takes the messages in the order sent.  The channel buffers the data it  *)
(* has received and not yet handed to a reader, up to its window; the      *)
(* server sends data only while the window has room.  StreamGobbler and    *)
(* BufferedReader on top of a channel stream hand its bytes on one by one  *)
(* and end when the channel has no byte left and has seen EOF or CLOSE.    *)
(***************************************************************************)
\* Bound: the number of bytes the remote process writes.
MaxEmit == 3

\* Bound: the channel's window, in bytes.
Window == 2

OutChars == {"h", "LF", "CR"}
Streams == {"out", "err"}
ExitCodes == {0, 3}

RECURSIVE PlansUpTo(_)
PlansUpTo(n) ==
    IF n = 0 THEN {<<>>}
    ELSE LET shorter == PlansUpTo(n - 1)
         IN  shorter \cup
               {Append(t, [t |-> st, v |-> c]) :
                    t \in {u \in shorter : Len(u) = n - 1},
                    st \in Streams, c \in OutChars}

Eof == [t |-> "eof", v |-> "none"]
CloseMsg == [t |-> "close", v |-> "none"]
Status(code) == [t |-> "status", v |-> code]

\* The ways a session ends: EOF then status, status then EOF, or no status.
Endings ==
    {<<Eof, Status(c), CloseMsg>> : c \in ExitCodes}
      \cup {<<Status(c), Eof, CloseMsg>> : c \in ExitCodes}
      \cup {<<Eof, CloseMsg>>}

DataInFlight == Len(SelectSeq(wire, LAMBDA m : m.t \in Streams))

\* Lines 60-63 and 183-184: run_in stores the session and executes the
\* command on it; the call returns without waiting.
Execute ==
    /\ cpc = "created"
    /\ UNCHANGED notCmd
    /\ cpc' = "running"
    /\ UNCHANGED <<plan, ending, tail, wire, outsent, errsent, chout, cherr, cheof,
                   chstatus, chclosed, line, skipLF, stdout, stderr, rc>>

\* The remote process writes its next byte, the window permitting.
RemoteWrites ==
    /\ cpc # "created"
    /\ plan # <<>>
    /\ DataInFlight + Len(chout) + Len(cherr) < Window
    /\ UNCHANGED notCmd
    /\ LET w == Head(plan)
       IN  /\ wire' = Append(wire, w)
           /\ outsent' = IF w.t = "out" THEN Append(outsent, w.v) ELSE outsent
           /\ errsent' = IF w.t = "err" THEN Append(errsent, w.v) ELSE errsent
    /\ plan' = Tail(plan)
    /\ UNCHANGED <<ending, tail, chout, cherr, cheof, chstatus, chclosed, cpc,
                   line, skipLF, stdout, stderr, rc>>

\* The process has ended: the server sends EOF, the exit status, CLOSE.
RemoteEnds ==
    /\ cpc # "created"
    /\ plan = <<>>
    /\ tail # <<>>
    /\ UNCHANGED notCmd
    /\ wire' = Append(wire, Head(tail))
    /\ tail' = Tail(tail)
    /\ UNCHANGED <<plan, ending, outsent, errsent, chout, cherr, cheof,
                   chstatus, chclosed, cpc, line, skipLF, stdout, stderr, rc>>

\* The receiver thread takes the next message.  A session the client has
\* closed takes none.
Receive ==
    /\ wire # <<>>
    /\ ~chclosed
    /\ UNCHANGED notCmd
    /\ LET m == Head(wire)
       IN  /\ chout' = IF m.t = "out" THEN Append(chout, m.v) ELSE chout
           /\ cherr' = IF m.t = "err" THEN Append(cherr, m.v) ELSE cherr
           /\ cheof' = (cheof \/ m.t \in {"eof", "close"})
           /\ chstatus' = IF m.t = "status" THEN m.v ELSE chstatus
    /\ wire' = Tail(wire)
    /\ UNCHANGED <<plan, ending, tail, outsent, errsent, chclosed, cpc, line, skipLF,
                   stdout, stderr, rc>>

\* The line added without the separator.
AppendLineBare(result, ln) == result \o ln

\* Line 179: a line read is added to the result with the separator.
AppendLine(result, ln) == result \o ln \o <<"LF">>

\* BufferedReader.readLine, one character on: LF, CR and CR LF each end a
\* line; the LF after a CR is skipped.
ReadChar(result, c) ==
    IF skipLF /\ c = "LF"
    THEN [result |-> result, line |-> line, skipLF |-> FALSE]
    ELSE IF c \in {"LF", "CR"}
    THEN [result |-> AppendLine(result, line), line |-> <<>>, skipLF |-> c = "CR"]
    ELSE [result |-> result, line |-> Append(line, c), skipLF |-> FALSE]

\* readLine at the end of the stream: what is left of a line is a line; with
\* nothing left it returns None and the loop of lines 178-180 ends.
ReadEnd(result) == IF line # <<>> THEN AppendLine(result, line) ELSE result

\* read_outputs leaving out the stderr stream.
ReadOutputsStepSkipsStderr(pc) ==
    CASE pc = "running" -> "stdout"
      [] pc = "stdout"  -> "status"
      [] pc = "stderr"  -> "status"
      [] pc = "status"  -> "closing"
      [] pc = "closing" -> "done"

\* Lines 167-171: the order of the statements of read_outputs, as the position
\* reached when the statement at pc has been executed: stdout is read to its
\* end, then stderr, then the exit status is taken, then the session is
\* closed and the call returns.
ReadOutputsStep(pc) ==
    CASE pc = "running" -> "stdout"
      [] pc = "stdout"  -> "stderr"
      [] pc = "stderr"  -> "status"
      [] pc = "status"  -> "closing"
      [] pc = "closing" -> "done"

\* Line 167: read_outputs begins with the stdout stream.
ReadOutputsBegin ==
    /\ cpc = "running"
    /\ UNCHANGED notCmd
    /\ cpc' = ReadOutputsStep(cpc)
    /\ UNCHANGED <<plan, ending, tail, wire, outsent, errsent, chout, cherr, cheof,
                   chstatus, chclosed, line, skipLF, stdout, stderr, rc>>

\* Lines 167, 173-181: _read_from_stream takes a character of stdout.
ReadStdout ==
    /\ cpc = "stdout"
    /\ chout # <<>>
    /\ UNCHANGED notCmd
    /\ LET r == ReadChar(stdout, Head(chout))
       IN  stdout' = r.result /\ line' = r.line /\ skipLF' = r.skipLF
    /\ chout' = Tail(chout)
    /\ UNCHANGED <<plan, ending, tail, wire, outsent, errsent, cherr, cheof, chstatus,
                   chclosed, cpc, stderr, rc>>

\* Lines 167, 173-181: stdout has ended; _read_from_stream returns.
ReadStdoutEnd ==
    /\ cpc = "stdout"
    /\ chout = <<>> /\ cheof
    /\ UNCHANGED notCmd
    /\ stdout' = ReadEnd(stdout)
    /\ line' = <<>> /\ skipLF' = FALSE
    /\ cpc' = ReadOutputsStep(cpc)
    /\ UNCHANGED <<plan, ending, tail, wire, outsent, errsent, chout, cherr, cheof,
                   chstatus, chclosed, stderr, rc>>

\* Lines 168, 173-181: _read_from_stream takes a character of stderr.
ReadStderr ==
    /\ cpc = "stderr"
    /\ cherr # <<>>
    /\ UNCHANGED notCmd
    /\ LET r == ReadChar(stderr, Head(cherr))
       IN  stderr' = r.result /\ line' = r.line /\ skipLF' = r.skipLF
    /\ cherr' = Tail(cherr)
    /\ UNCHANGED <<plan, ending, tail, wire, outsent, errsent, chout, cheof, chstatus,
                   chclosed, cpc, stdout, rc>>

\* Lines 168, 173-181: stderr has ended; _read_from_stream returns.
ReadStderrEnd ==
    /\ cpc = "stderr"
    /\ cherr = <<>> /\ cheof
    /\ UNCHANGED notCmd
    /\ stderr' = ReadEnd(stderr)
    /\ line' = <<>> /\ skipLF' = FALSE
    /\ cpc' = ReadOutputsStep(cpc)
    /\ UNCHANGED <<plan, ending, tail, wire, outsent, errsent, chout, cherr, cheof,
                   chstatus, chclosed, stdout, rc>>

\* self._session.getExitStatus() or 0
ExitStatusOrZero(status) == IF status = NoStatus \/ status = 0 THEN 0 ELSE status

\* Line 169.
GetExitStatus ==
    /\ cpc = "status"
    /\ UNCHANGED notCmd
    /\ rc' = ExitStatusOrZero(chstatus)
    /\ cpc' = ReadOutputsStep(cpc)
    /\ UNCHANGED <<plan, ending, tail, wire, outsent, errsent, chout, cherr, cheof,
                   chstatus, chclosed, line, skipLF, stdout, stderr>>

\* Lines 170-171: close the session and return.
SessionClose ==
    /\ cpc = "closing"
    /\ UNCHANGED notCmd
    /\ chclosed' = TRUE
    /\ cpc' = ReadOutputsStep(cpc)
    /\ UNCHANGED <<plan, ending, tail, wire, outsent, errsent, chout, cherr, cheof,
                   chstatus, line, skipLF, stdout, stderr, rc>>

CmdInit ==
    /\ plan \in PlansUpTo(MaxEmit)
    /\ ending \in Endings
    /\ tail = ending
    /\ wire = <<>>
    /\ outsent = <<>> /\ errsent = <<>> /\ chout = <<>> /\ cherr = <<>>
    /\ cheof = FALSE /\ chstatus = NoStatus /\ chclosed = FALSE
    /\ cpc = "created" /\ line = <<>> /\ skipLF = FALSE
    /\ stdout = <<>> /\ stderr = <<>> /\ rc = 0
    /\ connected = TRUE /\ authenticated = FALSE /\ shell = "none"
    /\ sftp = FALSE /\ shbuf = <<>> /\ produced = 0 /\ consumed = <<>>
    /\ rpc = "idle" /\ rn = 0
    /\ lastop = "none" /\ lasterr = "none" /\ lastret = <<>>
    /\ lastkey = "none" /\ everok = FALSE
    /\ preconn = TRUE /\ preauth = FALSE
    /\ ppath = <<>> /\ dirs = {} /\ files = {} /\ ppc = "idle" /\ pcalls = 0
    /\ curdir = <<>> /\ todo = <<>> /\ perr = "none" /\ plog = <<>>
    /\ dirs1 = {} /\ perr1 = "none"
    /\ rexists = FALSE /\ rlen = 0 /\ rspecial = FALSE /\ rchanges = 0
    /\ localpre = "absent" /\ localtrunc = FALSE /\ localopen = FALSE
    /\ localfile = <<>>
    /\ gop = "none" /\ gpc = "idle" /\ gerr = "none"
    /\ remotefilesize = 0 /\ size = 0 /\ data = <<>> /\ moredata = 0
    /\ shortread = FALSE
    /\ handles = NoHandles
    /\ cret = 0 /\ cswallowed = "none" /\ cperm = FALSE
    /\ cfault = <<"none", "none">>
    /\ dfile = <<>>

CmdNext ==
    \/ Execute
    \/ RemoteWrites
    \/ RemoteEnds
    \/ Receive
    \/ ReadOutputsBegin
    \/ ReadStdout
    \/ ReadStdoutEnd
    \/ ReadStderr
    \/ ReadStderrEnd
    \/ GetExitStatus
    \/ SessionClose

SpecCmd == CmdInit /\ [][CmdNext]_vars

\* The same, every party going on whenever it can: the remote process and
\* the server send what the window lets them, the receiver thread takes what
\* has arrived, and the caller of run_in calls read_outputs, which goes on
\* whenever its stream has a byte or has ended.
SpecCmdLive == CmdInit /\ [][CmdNext]_vars /\ WF_vars(CmdNext)

(***************************************************************************)
(* Claims about the command session                                        *)
(***************************************************************************)
CmdDone == cpc = "done"

\* The exit status the remote process reports, NoStatus if it reports none.
Reported ==
    LET st == SelectSeq(ending, LAMBDA m : m.t = "status")
    IN  IF st = <<>> THEN NoStatus ELSE st[1].v

\* C9 (as claimed): read_outputs returns the exit status the remote process
\* reports, in whatever order EOF and the status arrive, and 0 only if none
\* is reported.
C9_ExitCodeIsReportedStatus ==
    CmdDone => rc = (IF Reported = NoStatus THEN 0 ELSE Reported)

\* What does hold for C9: the same, when the server sends the status before
\* the EOF.
ExitCodeIsStatusSentBeforeEof ==
    (CmdDone /\ ending[1].t = "status") => rc = Reported

\* The lines of a byte sequence, each followed by the separator: LF, CR and
\* CR LF end a line, and so does the end of the sequence after a last line
\* without one.
RECURSIVE LinesOf(_)
LinesOf(bytes) ==
    IF bytes = <<>> THEN <<>>
    ELSE IF Head(bytes) = "CR" /\ Len(bytes) > 1 /\ bytes[2] = "LF"
    THEN <<"LF">> \o LinesOf(Tail(Tail(bytes)))
    ELSE IF Head(bytes) \in {"LF", "CR"}
    THEN <<"LF">> \o LinesOf(Tail(bytes))
    ELSE IF Len(bytes) = 1 THEN <<Head(bytes), "LF">>
    ELSE <<Head(bytes)>> \o LinesOf(Tail(bytes))

\* C10: what read_outputs returns as stdout and as stderr is the lines the
\* process wrote to that stream, in order, each followed by the separator,
\* none dropped and none cut short.
C10_OutputsAreTheLinesWritten ==
    CmdDone => (stdout = LinesOf(outsent) /\ stderr = LinesOf(errsent))

\* C10's case: the process wrote "h" and a line feed to stdout and nothing to
\* stderr, and read_outputs has returned.
C10_Witness ==
    CmdDone /\ outsent = <<"h", "LF">> /\ errsent = <<>> /\ stdout = <<"h", "LF">>

\* The positions of a command session, in order: CREATED, RUNNING, the
\* statements of read_outputs, COMPLETED.
Lifecycle == <<"created", "running", "stdout", "stderr", "status", "closing", "done">>

Position(pc) == CHOOSE i \in 1..Len(Lifecycle) : Lifecycle[i] = pc

\* C11: a command session moves only forward, one position at a time, from
\* CREATED through RUNNING and the statements of read_outputs to COMPLETED;
\* executing the command never waits for the remote side; the channel is
\* closed by the step that completes the session and by no earlier one, that
\* step reads neither a stream nor the status, and a completed session has
\* taken every byte of stdout and of stderr up to the end of the stream.
C11_SessionLifecycle ==
    /\ [](cpc = "created" => ENABLED Execute)
    /\ [](chclosed <=> CmdDone)
    /\ [](CmdDone => (cheof /\ chout = <<>> /\ cherr = <<>>
                        /\ Len(stdout) >= Len(SelectSeq(outsent, LAMBDA c : c = "h"))
                        /\ Len(stderr) >= Len(SelectSeq(errsent, LAMBDA c : c = "h"))))
    /\ [][/\ Position(cpc') \in {Position(cpc), Position(cpc) + 1}
          /\ (cpc' = "done" /\ cpc # "done") =>
                /\ cpc = "closing" /\ ~chclosed /\ chclosed'
                /\ UNCHANGED <<stdout, stderr, rc, chout, cherr, chstatus>>
          /\ cpc \in {"created", "running", "closing", "done"} =>
                UNCHANGED <<stdout, stderr, rc>>]_vars

\* C11's case: a command that wrote to both streams and reported status 3 has
\* been read out and its session closed.
C11_Witness ==
    /\ CmdDone /\ chclosed /\ outsent # <<>> /\ errsent # <<>>
    /\ ending[1].t = "status" /\ rc = 3

(***************************************************************************)
(* Claims about reading from the shell                                     *)
(***************************************************************************)
\* The character a byte of the shell's output stands for.
CharOf(b) == IF b < 0 THEN b + 256 ELSE b

CharsOf(bytes) == [i \in 1..Len(bytes) |-> CharOf(bytes[i])]

\* What the remote shell has written so far.
ShellProduced == [i \in 1..produced |-> ByteAt(i)]

ReadOps == {"read", "read_byte"}

\* C12: _read and _read_byte call the stream's read only with at least one
\* byte buffered, and _read asks for no more bytes than are buffered when it
\* reads, also while the shell keeps writing: no read waits.  With nothing
\* buffered each returns ''; otherwise _read sizes its array to all the bytes
\* buffered and returns that many, the first ones of the buffer, and
\* _read_byte returns the first one.
C12_ShellReadsNeverBlock ==
    /\ [](rpc # "idle" => Len(shbuf) >= 1)
    /\ [](rpc = "read_alloc" => (1 <= rn /\ rn <= Len(shbuf)))
    /\ [][/\ (rpc = "idle" /\ rpc' = "idle" /\ lastop' \in ReadOps
                /\ lasterr' = "none" /\ produced' = produced)
              => (Len(shbuf) = 0 /\ lastret' = <<>>)
          /\ (rpc = "idle" /\ rpc' # "idle") => Len(shbuf) >= 1
          /\ (rpc = "read_checked" /\ rpc' = "read_alloc") => rn' = Len(shbuf)
          /\ (rpc = "read_alloc" /\ rpc' = "idle") =>
                /\ lastop' = "read" /\ lasterr' = "none"
                /\ lastret' = CharsOf(SubSeq(shbuf, 1, rn))
                /\ shbuf' = SubSeq(shbuf, rn + 1, Len(shbuf))
          /\ (rpc = "byte_checked" /\ rpc' = "idle") =>
                /\ lastop' = "read_byte" /\ lasterr' = "none"
                /\ lastret' = <<CharOf(shbuf[1])>>
                /\ shbuf' = Tail(shbuf)]_vars

\* C12's case: the shell has written two bytes and a _read has returned both
\* and left the buffer empty.
C12_Witness ==
    /\ lastop = "read" /\ rpc = "idle" /\ lasterr = "none"
    /\ Len(lastret) = 2 /\ shbuf = <<>> /\ produced = 2

\* C18: what the successive _read and _read_byte calls have returned, put
\* together, followed by what is still buffered, is what the shell has
\* written, byte for byte and in order: nothing is lost, doubled or moved,
\* also when bytes arrive between the check of available() and the read.
C18_ReadsFormPrefixOfProduced ==
    consumed \o CharsOf(shbuf) = CharsOf(ShellProduced)

\* C18's case: a _read has sized its array, a byte has arrived since, and an
\* earlier call has already returned data.
C18_Witness ==
    /\ rpc = "read_alloc" /\ rn < Len(shbuf) /\ consumed # <<>>

(***************************************************************************)
(* Claims about the download loop                                          *)
(***************************************************************************)
GetLooping == gop = "get" /\ gpc = "loop"

\* C13: the loop of _get_file is left for the statements after it when and
\* only when read has returned -1: while the loop runs no read has returned
\* -1, once it is left the last read returned -1, a read that returned 0
\* leaves the call in the loop, and the iteration that leaves the loop writes
\* nothing to the local file.
C13_LoopEndsOnSentinelOnly ==
    /\ [](GetLooping => moredata # -1)
    /\ []((gop = "get" /\ gpc \in {"closing", "returned"}) => moredata = -1)
    /\ [][(GetLooping /\ gpc' = "closing") =>
              (moredata' = -1 /\ UNCHANGED <<localfile, size, data>>)]_vars
    /\ [][(GetLooping /\ moredata' = 0 /\ size' # size) => gpc' = "loop"]_vars

\* C13's case: the second read of an 8200-byte file returned 0 bytes and the
\* call is still in the loop.
C13_Witness ==
    /\ GetLooping /\ remotefilesize = 8200 /\ size = 8192 /\ moredata = 0

\* C15: the size is taken by the stat before the loop and not again; the
\* first read is at offset 0 and every read at the offset size, which is the
\* number of bytes written to the local file so far; that number never
\* exceeds the size stat reported; and when the call returns for a file that
\* did not change, it equals that size, which is the file's length.
C15_SizeAccounting ==
    /\ []((gop = "get" /\ gpc \in {"loop", "closing", "returned"}) =>
            (size = RLen(localfile) /\ size <= remotefilesize))
    /\ []((GetReturned /\ rchanges = 0) =>
            (size = remotefilesize /\ RLen(localfile) = rlen))
    /\ [][(gpc # "loop" /\ gpc' = "loop") =>
              (size' = 0 /\ remotefilesize' = rlen /\ localfile' = <<>>)]_vars
    /\ [][GetLooping => remotefilesize' = remotefilesize]_vars

\* C15's case: a file of two chunks and a rest has been downloaded.
C15_Witness ==
    /\ GetReturned /\ rchanges = 0 /\ remotefilesize = 8200 /\ size = 8200

\* C16 (as claimed): an iteration of the loop that does not leave it writes
\* to the local file the bytes its read delivered, no more and no fewer, and
\* moves the offset on by their number.
C16_WritesWhatWasRead ==
    [][(GetLooping /\ gpc' = "loop" /\ (size' # size \/ data' # data)) =>
          /\ size' = size + moredata'
          /\ localfile' = RCat(localfile, RemoteBytes(size, moredata'))]_vars

\* What does hold for C16: the same, for a read that filled the buffer, or
\* filled it up to the size stat reported.
WritesWhatWasReadWhenFilled ==
    [][(GetLooping /\ gpc' = "loop" /\ (size' # size \/ data' # data)
          /\ moredata' = Datalen(remotefilesize, size)) =>
          /\ size' = size + moredata'
          /\ localfile' = RCat(localfile, RemoteBytes(size, moredata'))]_vars

\* The loop can make no progress: the offset has reached the size stat
\* reported, so that datalen is 0, and the file has bytes beyond it, so that
\* read returns data and never -1.
GetStuck ==
    /\ GetLooping
    /\ Datalen(remotefilesize, size) = 0
    /\ -1 \notin ReadResults(size, arraysize)

\* C17 (as claimed): a download that has begun ends, also when the file's
\* length has changed since the stat.
C17_DownloadReturns == (gop = "get") ~> GetEnded

\* What does hold for C17: the loop gets stuck only on a file that is longer
\* than stat reported.
StuckOnlyWhenLonger == GetStuck => rlen > remotefilesize

\* C20 (as claimed): when _get_file has raised before it had a remote handle
\* (the local open, the stat or openFileRO failed), the local file has been
\* neither created nor truncated and no local stream is open.
C20_FailedDownloadLeavesLocalAlone ==
    (gop = "get" /\ gpc = "raised" /\ handles = NoHandles) =>
        (~localtrunc /\ ~localopen)

\* What does hold for C20: the error propagates, and nothing has been written
\* to the local file.
FailedDownloadPropagates ==
    (gop = "get" /\ gpc = "raised" /\ handles = NoHandles) =>
        (gerr # "none" /\ (localtrunc => localfile = <<>>))

(***************************************************************************)
(* Claims about the errors of _create_missing_remote_path                  *)
(***************************************************************************)
PathLooping == ppc = "loop"

LastOf(log) == log[Len(log)]

\* C14: a stat that fails is followed by a mkdir of the path just stat'ed and
\* is not what the call raises; a mkdir that fails is what the call raises,
\* it is not tried again, and it ends the call: nothing is stat'ed or created
\* after it, whatever segments were still to come.
C14_OnlyStatFailureIsControlFlow ==
    /\ [](\A i \in 1..Len(plog) :
            plog[i][1] = "mkdir" => (i > 1 /\ plog[i - 1] = <<"stat", plog[i][2]>>))
    /\ [](\A i, j \in 1..Len(plog) :
            (plog[i][1] = "mkdir" /\ plog[j] = plog[i]) => i = j)
    /\ []((ppc = "ended" /\ perr = "SFTPException") =>
            (plog # <<>> /\ LastOf(plog)[1] = "mkdir" /\ LastOf(plog)[2] \notin dirs))
    /\ [][(PathLooping /\ ~StatOk(NextCurdir)) =>
              /\ plog' = plog \o << <<"stat", Resolve(NextCurdir)>>,
                                    <<"mkdir", Resolve(NextCurdir)>> >>
              /\ IF MkdirOk(NextCurdir)
                 THEN /\ dirs' = dirs \cup {Resolve(NextCurdir)}
                      /\ (ppc' = "ended" => perr' = "none")
                 ELSE /\ dirs' = dirs
                      /\ ppc' = "ended" /\ perr' = "SFTPException"]_vars
    /\ [][ppc = "ended" => (plog' \in {plog, <<>>} /\ (plog' = plog => dirs' = dirs))]_vars

\* C14's case: the stat of a segment below a regular file has failed, the
\* mkdir has failed too, and the call has ended with a segment still to come.
C14_Witness ==
    /\ ppc = "ended" /\ perr = "SFTPException" /\ todo # <<>>
    /\ Len(plog) >= 2 /\ LastOf(plog)[1] = "mkdir"

(***************************************************************************)
(* Claims about read_outputs returning                                     *)
(***************************************************************************)
\* The bytes the process writes to stderr in all, written or still to write.
StderrTotal ==
    Len(errsent) + Len(SelectSeq(plan, LAMBDA w : w.t = "err"))

\* C19 (as claimed): a read_outputs that has begun returns, whatever the
\* process writes to stdout and stderr and in whatever order.
C19_ReadOutputsReturns == (cpc = "stdout") ~> CmdDone

\* What does hold for C19: it returns when all the process writes to stderr
\* fits into the channel's window.
ReadOutputsReturnsWhenStderrFits ==
    (cpc = "stdout" /\ StderrTotal < Window) ~> CmdDone

\* read_outputs waits for stdout, and nothing can happen any more: the window
\* is full of stderr bytes nobody takes, and the process has more to write.
CmdStuck ==
    /\ cpc = "stdout" /\ chout = <<>> /\ ~cheof /\ wire = <<>>
    /\ Len(cherr) = Window /\ plan # <<>>

=============================================================================
